---- MODULE Spec2Model ----
(***************************************************************************)
(* A model of maze_generator.py: MazeGenerator (randomized depth-first     *)
(* carving, extra-path injection, endpoint placement, 180 degree rotation) *)
(* and MazeSolver (solve_bfs, solve_dfs).                                  *)
(*                                                                         *)
(* The grid is maze[y][x] as in the source: a function from rows 0..h-1 to *)
(* functions from columns 0..w-1 to cell values.  Coordinates kept in the  *)
(* stack, the visited sets and the paths are <<x, y>>, as the source's     *)
(* tuples (x, y).                                                          *)
(***************************************************************************)
EXTENDS Integers, Sequences, FiniteSets, TLC

VARIABLES
    width,       \* MazeGenerator.width  (odd-corrected)
    height,      \* MazeGenerator.height (odd-corrected)
    difficulty,  \* MazeGenerator.difficulty
    maze,        \* MazeGenerator.maze / MazeSolver.maze
    stack,       \* generate_maze: the local stack
    visited,     \* generate_maze: the local visited set
    extra_left,  \* _add_extra_paths: iterations of the for loop still to run
    pc,          \* where the program is
    solved,      \* which solve calls have returned
    bfs_path,    \* what the last solve_bfs call returned
    dfs_path,    \* what the last solve_dfs call returned
    given,       \* the grid as handed to the solver / to the rotation
    rotations,   \* how many times _rotate_maze was applied to given
    args_small,  \* whether MazeGenerator was called with a width or height below 3
    dfs_entered  \* the cells the last solve_dfs call entered dfs(x, y) with, in order

vars == <<width, height, difficulty, maze, stack, visited, extra_left, pc,
          solved, bfs_path, dfs_path, given, rotations,
                   args_small, dfs_entered>>

----------------------------------------------------------------------------
(* Bounds of the model *)

\* the largest width and the largest height passed to
\* MazeGenerator(width, height); __init__ makes an even one odd (6 becomes 7)
MaxWidth == 7
MaxHeight == 6

\* the width and the height of the hand-made grids passed to MazeSolver(maze)
GridWidth == 3
GridHeight == 3

\* _rotate_maze applied alone: the largest width and height given to the
\* generator, the most cells besides the two corner cells that are not Wall,
\* and the most applications
MaxRotDim == 5
MaxMarked == 1
MaxRotations == 2

----------------------------------------------------------------------------
(* Cell values, MazeVisualizer.colors *)

Passage == 0
Wall == 1
Entry == 2
Exit == 3

Difficulties == {"easy", "medium", "hard"}

\* self.extra_paths, in thousandths: 0.08, 0.002, 0.001
ExtraPathsEasy == 80
ExtraPathsMedium == 2
ExtraPathsHard == 1

ExtraPathsPerMille(d) ==
    CASE d = "easy" -> ExtraPathsEasy
      [] d = "medium" -> ExtraPathsMedium
      [] d = "hard" -> ExtraPathsHard

\* __init__: width if width % 2 == 1 else width + 1
OddCorrect(n) == IF n % 2 = 1 THEN n ELSE n + 1

\* __init__: [[1 for _ in range(width)] for _ in range(height)]
AllWalls(w, h) == [y \in 0..(h - 1) |-> [x \in 0..(w - 1) |-> Wall]]

\* self.directions of MazeGenerator: Right, Down, Left, Up, as (dx, dy)
GenDirections == {<<0, 2>>, <<2, 0>>, <<0, -2>>, <<-2, 0>>}

\* a variant of the neighbour condition: the last interior column is left out
IsNeighborShort(w, h, vis, nx, ny) ==
    /\ 0 < nx /\ nx < w - 2
    /\ 0 < ny /\ ny < h - 1
    /\ <<nx, ny>> \notin vis

\* generate_maze: the condition under which a direction joins neighbors
IsNeighbor(w, h, vis, nx, ny) ==
    /\ 0 < nx /\ nx < w - 1
    /\ 0 < ny /\ ny < h - 1
    /\ <<nx, ny>> \notin vis

\* generate_maze: the list neighbors built for the cell on top of the stack,
\* as the set of (next_x, next_y, dx, dy)
Neighbors(w, h, vis, cx, cy) ==
    {n \in {<<cx + d[1], cy + d[2], d[1], d[2]>> : d \in GenDirections} :
        IsNeighbor(w, h, vis, n[1], n[2])}

\* a variant of dx//2: the whole offset, which opens the neighbour itself in
\* place of the cell between
HalfWhole(d) == d

\* Python's dx//2 for dx in {-2, 0, 2}
Half(d) == IF d = 2 THEN 1 ELSE IF d = -2 THEN -1 ELSE 0

\* _add_extra_paths: int((width * height) * extra_paths)
ExtraPathsCount(w, h, d) == (w * h * ExtraPathsPerMille(d)) \div 1000

\* _add_extra_paths: the four orthogonal offsets (dx, dy)
OrthDirections == <<<<0, 1>>, <<1, 0>>, <<0, -1>>, <<-1, 0>>>>

\* _add_extra_paths: the count of orthogonal neighbours equal to 0
PassagesAround(m, x, y) ==
    Cardinality({i \in 1..4 :
        m[y + OrthDirections[i][2]][x + OrthDirections[i][1]] = Passage})

\* _add_extra_paths: the threshold of "passages >= 2"
MinPassages == 2

\* a variant: random.randrange(1, dim - 1), every cell inside the border
ExtraRangeWide(dim) == 1..(dim - 2)

\* _add_extra_paths: random.randrange(2, dim - 2)
ExtraRange(dim) == 2..(dim - 3)

\* _add_extra_paths: one iteration of the loop body on the drawn (x, y)
ExtraPathStep(m, x, y) ==
    IF m[y][x] = Wall /\ PassagesAround(m, x, y) >= MinPassages
    THEN [m EXCEPT ![y][x] = Passage]
    ELSE m

\* a variant: the end placed in the bottom-right corner of the grid itself
SetStartEndGridCorner(m, w, h) ==
    LET m1 == [m EXCEPT ![1][1] = Entry]
        m2 == [m1 EXCEPT ![h - 1][w - 1] = Exit]
        m3 == [m2 EXCEPT ![1][2] = Passage]
        m4 == [m3 EXCEPT ![2][1] = Passage]
        m5 == [m4 EXCEPT ![h - 2][w - 3] = Passage]
    IN  [m5 EXCEPT ![h - 3][w - 2] = Passage]

\* _set_start_end: the six assignments, in order
SetStartEndGrid(m, w, h) ==
    LET m1 == [m EXCEPT ![1][1] = Entry]
        m2 == [m1 EXCEPT ![h - 2][w - 2] = Exit]
        m3 == [m2 EXCEPT ![1][2] = Passage]
        m4 == [m3 EXCEPT ![2][1] = Passage]
        m5 == [m4 EXCEPT ![h - 2][w - 3] = Passage]
    IN  [m5 EXCEPT ![h - 3][w - 2] = Passage]

\* _rotate_maze: [row[::-1] for row in self.maze[::-1]]
Reflect(m, w, h) ==
    [r \in 0..(h - 1) |-> [c \in 0..(w - 1) |-> m[h - 1 - r][w - 1 - c]]]

\* a variant: no swap after the reflection
SwapCornersNone(m, w, h) == m

\* a variant: the swap written as two assignments without a temporary
SwapCornersSequential(m, w, h) ==
    LET m1 == [m EXCEPT ![1][1] = m[h - 2][w - 2]]
    IN  [m1 EXCEPT ![h - 2][w - 2] = m1[1][1]]

\* _rotate_maze: the tuple assignment swapping maze[1][1] and
\* maze[height-2][width-2]; both right-hand sides are read first, the two
\* stores then happen left to right
SwapCorners(m, w, h) ==
    LET a == m[h - 2][w - 2]
        b == m[1][1]
        m1 == [m EXCEPT ![1][1] = a]
    IN  [m1 EXCEPT ![h - 2][w - 2] = b]

\* _rotate_maze
RotateMaze(m, w, h) == SwapCorners(Reflect(m, w, h), w, h)

----------------------------------------------------------------------------
(* MazeSolver *)

\* MazeSolver.__init__: len(maze) and len(maze[0])
SolverHeight(m) == Cardinality(DOMAIN m)
SolverWidth(m) == Cardinality(DOMAIN m[0])

\* the cells (x, y) of a grid
CellsOf(m) ==
    {<<x, y>> : x \in 0..(SolverWidth(m) - 1), y \in 0..(SolverHeight(m) - 1)}

\* row-major order of the scans in _find_start and _find_end
RowMajorBefore(c, d) == c[2] < d[2] \/ (c[2] = d[2] /\ c[1] <= d[1])

\* the first cell, in row-major order, that holds v; fallback if there is none
FindFirst(m, v, fallback) ==
    LET S == {c \in CellsOf(m) : m[c[2]][c[1]] = v}
    IN  IF S = {} THEN fallback
        ELSE CHOOSE c \in S : \A d \in S : RowMajorBefore(c, d)

\* MazeSolver._find_start
FindStart(m) == FindFirst(m, Entry, <<1, 1>>)

\* MazeSolver._find_end
FindEnd(m) == FindFirst(m, Exit, <<SolverWidth(m) - 2, SolverHeight(m) - 2>>)

\* solve_dfs, solve_bfs: the test a neighbour must pass, the visited set apart
Traversable(m, nx, ny) ==
    /\ 0 <= nx /\ nx < SolverWidth(m)
    /\ 0 <= ny /\ ny < SolverHeight(m)
    /\ m[ny][nx] # Wall

\* self.directions of MazeSolver, in iteration order, as (dx, dy)
SolverDirections == <<<<0, 1>>, <<1, 0>>, <<0, -1>>, <<-1, 0>>>>

\* the neighbour of cell c in the i-th direction
Step(c, i) == <<c[1] + SolverDirections[i][1], c[2] + SolverDirections[i][2]>>

\* a variant: deque.appendleft
EnqueueFront(queue, item) == <<item>> \o queue

\* solve_bfs: where a newly reached cell enters the queue (deque.append)
Enqueue(queue, item) == Append(queue, item)

\* solve_bfs, lines 166-172: the for loop over the directions from index i on,
\* for the dequeued (c, path); yields the queue and the visited set
RECURSIVE BfsExpand(_, _, _, _, _, _)
BfsExpand(m, c, path, queue, vis, i) ==
    IF i > Len(SolverDirections) THEN [queue |-> queue, visited |-> vis]
    ELSE LET n == Step(c, i) IN
         IF Traversable(m, n[1], n[2]) /\ n \notin vis
         THEN BfsExpand(m, c, path, Enqueue(queue, <<n, Append(path, n)>>),
                        vis \cup {n}, i + 1)
         ELSE BfsExpand(m, c, path, queue, vis, i + 1)

\* a variant: queue.pop() in place of queue.popleft()
RECURSIVE BfsLoopPopRight(_, _, _, _)
BfsLoopPopRight(m, end, queue, vis) ==
    IF queue = <<>> THEN <<>>
    ELSE LET c == queue[Len(queue)][1]
             path == queue[Len(queue)][2]
         IN  IF c = end THEN path
             ELSE LET r == BfsExpand(m, c, path, SubSeq(queue, 1, Len(queue) - 1), vis, 1)
                  IN  BfsLoopPopRight(m, end, r.queue, r.visited)

\* solve_bfs, lines 161-173: the while loop
RECURSIVE BfsLoop(_, _, _, _)
BfsLoop(m, end, queue, vis) ==
    IF queue = <<>> THEN <<>>
    ELSE LET c == Head(queue)[1]
             path == Head(queue)[2]
         IN  IF c = end THEN path
             ELSE LET r == BfsExpand(m, c, path, Tail(queue), vis, 1)
                  IN  BfsLoop(m, end, r.queue, r.visited)

\* MazeSolver.solve_bfs
SolveBfsPath(m) ==
    LET start == FindStart(m)
    IN  BfsLoop(m, FindEnd(m), <<<<start, <<start>>>>>>, {start})

\* a variant of path.pop(): the cell is left on the path
PopLastKept(path) == path

\* solve_dfs: path.pop()
PopLast(path) == SubSeq(path, 1, Len(path) - 1)

\* solve_dfs, lines 136-149: the nested function dfs(x, y), with the visited
\* set and the path it shares with its caller passed in and handed back.
\* DfsFrom is the for loop of one call from direction index i on.  entered
\* records, in order, the cells dfs was called with so far.
RECURSIVE DfsCall(_, _, _, _, _, _), DfsFrom(_, _, _, _, _, _, _)

\* a variant: a cell is dropped from the visited set when the search backs
\* off it, so that visited holds the cells of the current path only
DfsFromPathOnly(m, end, c, vis, path, entered, i) ==
    IF i > Len(SolverDirections)
    THEN [found |-> FALSE, visited |-> vis \ {c}, path |-> path, entered |-> entered]
    ELSE LET n == Step(c, i) IN
         IF Traversable(m, n[1], n[2]) /\ n \notin vis
         THEN LET r == DfsCall(m, end, n, vis, Append(path, n), entered)
              IN  IF r.found THEN r
                  ELSE DfsFrom(m, end, c, r.visited, PopLast(r.path), r.entered, i + 1)
         ELSE DfsFrom(m, end, c, vis, path, entered, i + 1)

DfsCall(m, end, c, vis, path, entered) ==
    IF c = end
    THEN [found |-> TRUE, visited |-> vis, path |-> path,
          entered |-> Append(entered, c)]
    ELSE DfsFrom(m, end, c, vis \cup {c}, path, Append(entered, c), 1)

DfsFrom(m, end, c, vis, path, entered, i) ==
    IF i > Len(SolverDirections)
    THEN [found |-> FALSE, visited |-> vis, path |-> path, entered |-> entered]
    ELSE LET n == Step(c, i) IN
         IF Traversable(m, n[1], n[2]) /\ n \notin vis
         THEN LET r == DfsCall(m, end, n, vis, Append(path, n), entered)
              IN  IF r.found THEN r
                  ELSE DfsFrom(m, end, c, r.visited, PopLast(r.path), r.entered, i + 1)
         ELSE DfsFrom(m, end, c, vis, path, entered, i + 1)

\* solve_dfs, lines 131-134 and 151-152: the whole run of dfs(*start)
DfsRun(m) ==
    LET start == FindStart(m)
    IN  DfsCall(m, FindEnd(m), start, {}, <<start>>, <<>>)

\* MazeSolver.solve_dfs: the path list is returned whatever dfs returned
SolveDfsPath(m) == DfsRun(m).path

----------------------------------------------------------------------------
(* MazeGenerator *)

\* MazeGenerator(width, height, difficulty): the state after __init__
Init ==
    /\ \E w \in (-1)..MaxWidth, h \in (-1)..MaxHeight :
        /\ width = OddCorrect(w)
        /\ height = OddCorrect(h)
        /\ maze = AllWalls(OddCorrect(w), OddCorrect(h))
        /\ args_small = (w < 3 \/ h < 3)
    /\ difficulty \in Difficulties
    /\ stack = <<>>
    /\ visited = {}
    /\ extra_left = 0
    /\ pc = "constructed"
    /\ solved = {}
    /\ bfs_path = <<>>
    /\ dfs_path = <<>>
    /\ given = <<>>
    /\ rotations = 0
    /\ dfs_entered = <<>>

\* generate_maze, lines 23-35: all cells Wall, cell (1,1) opened, stack and
\* visited set up.  maze[1][1] raises IndexError on a grid one cell wide or high.
Start ==
    /\ pc = "constructed"
    /\ IF width < 2 \/ height < 2
       THEN /\ pc' = "fault"
            /\ maze' = AllWalls(width, height)
            /\ UNCHANGED <<stack, visited>>
       ELSE /\ pc' = "carving"
            /\ maze' = [AllWalls(width, height) EXCEPT ![1][1] = Passage]
            /\ stack' = <<<<1, 1>>>>
            /\ visited' = {<<1, 1>>}
    /\ UNCHANGED <<width, height, difficulty, extra_left, solved, bfs_path,
                   dfs_path, given, rotations,
                   args_small, dfs_entered>>

\* generate_maze, lines 37-56: an iteration of the while loop that finds an
\* unvisited neighbour.  random.shuffle followed by random.choice makes any
\* member of neighbors the possible choice.
Carve ==
    /\ pc = "carving"
    /\ stack # <<>>
    /\ LET cur == stack[Len(stack)] IN
        \E n \in Neighbors(width, height, visited, cur[1], cur[2]) :
            /\ maze' = [[maze EXCEPT ![cur[2] + Half(n[4])][cur[1] + Half(n[3])] = Passage]
                            EXCEPT ![n[2]][n[1]] = Passage]
            /\ stack' = Append(stack, <<n[1], n[2]>>)
            /\ visited' = visited \cup {<<n[1], n[2]>>}
    /\ UNCHANGED <<width, height, difficulty, extra_left, pc, solved, bfs_path,
                   dfs_path, given, rotations,
                   args_small, dfs_entered>>

\* a variant of stack.pop(): the bottom cell is removed, as stack.pop(0) would
BacktrackPopFirst ==
    /\ pc = "carving"
    /\ stack # <<>>
    /\ LET cur == stack[Len(stack)] IN
        Neighbors(width, height, visited, cur[1], cur[2]) = {}
    /\ stack' = Tail(stack)
    /\ UNCHANGED <<width, height, difficulty, maze, visited, extra_left, pc,
                   solved, bfs_path, dfs_path, given, rotations,
                   args_small, dfs_entered>>

\* generate_maze, lines 37-49 and 57-58: an iteration that finds none
Backtrack ==
    /\ pc = "carving"
    /\ stack # <<>>
    /\ LET cur == stack[Len(stack)] IN
        Neighbors(width, height, visited, cur[1], cur[2]) = {}
    /\ stack' = SubSeq(stack, 1, Len(stack) - 1)
    /\ UNCHANGED <<width, height, difficulty, maze, visited, extra_left, pc,
                   solved, bfs_path, dfs_path, given, rotations,
                   args_small, dfs_entered>>

\* generate_maze, line 37 (the loop ends) and 61; _add_extra_paths, line 70
AddExtraPaths ==
    /\ pc = "carving"
    /\ stack = <<>>
    /\ pc' = "extra_paths"
    /\ extra_left' = ExtraPathsCount(width, height, difficulty)
    /\ UNCHANGED <<width, height, difficulty, maze, stack, visited, solved,
                   bfs_path, dfs_path, given, rotations,
                   args_small, dfs_entered>>

\* _add_extra_paths, lines 72-86: one iteration of the for loop.
\* random.randrange raises ValueError on an empty range.
ExtraPath ==
    /\ pc = "extra_paths"
    /\ extra_left > 0
    /\ IF ExtraRange(width) = {} \/ ExtraRange(height) = {}
       THEN /\ pc' = "fault"
            /\ UNCHANGED <<maze, extra_left>>
       ELSE /\ \E x \in ExtraRange(width), y \in ExtraRange(height) :
                maze' = ExtraPathStep(maze, x, y)
            /\ extra_left' = extra_left - 1
            /\ pc' = pc
    /\ UNCHANGED <<width, height, difficulty, stack, visited, solved, bfs_path,
                   dfs_path, given, rotations,
                   args_small, dfs_entered>>

\* _add_extra_paths returns; generate_maze, line 64: _set_start_end
SetStartEnd ==
    /\ pc = "extra_paths"
    /\ extra_left = 0
    /\ maze' = SetStartEndGrid(maze, width, height)
    /\ pc' = "placed"
    /\ UNCHANGED <<width, height, difficulty, stack, visited, extra_left,
                   solved, bfs_path, dfs_path, given, rotations,
                   args_small, dfs_entered>>

\* generate_maze, lines 65-66: _rotate_maze, and the grid is returned
Rotate ==
    /\ pc = "placed"
    /\ maze' = RotateMaze(maze, width, height)
    /\ pc' = "done"
    /\ UNCHANGED <<width, height, difficulty, stack, visited, extra_left,
                   solved, bfs_path, dfs_path, given, rotations,
                   args_small, dfs_entered>>

\* a variant of solve_bfs that marks the passages of the path it found in
\* the grid itself, by writing Wall over them
SolveBfsMarking ==
    /\ pc \in {"done", "handed"}
    /\ bfs_path' = SolveBfsPath(maze)
    /\ maze' = [y \in DOMAIN maze |-> [x \in DOMAIN maze[y] |->
                    IF maze[y][x] = Passage
                       /\ <<x, y>> \in {bfs_path'[i] : i \in 1..Len(bfs_path')}
                    THEN Wall ELSE maze[y][x]]]
    /\ solved' = solved \cup {"bfs"}
    /\ UNCHANGED <<width, height, difficulty, stack, visited, extra_left,
                   pc, dfs_path, given, rotations,
                   args_small, dfs_entered>>

\* MazeSolver(maze).solve_bfs(), on the grid generate_maze returned (main) or
\* on a hand-made grid
SolveBfs ==
    /\ pc \in {"done", "handed"}
    /\ bfs_path' = SolveBfsPath(maze)
    /\ solved' = solved \cup {"bfs"}
    /\ UNCHANGED <<width, height, difficulty, maze, stack, visited, extra_left,
                   pc, dfs_path, given, rotations,
                   args_small, dfs_entered>>

\* MazeSolver(maze).solve_dfs(), likewise
SolveDfs ==
    /\ pc \in {"done", "handed"}
    /\ dfs_path' = SolveDfsPath(maze)
    /\ dfs_entered' = DfsRun(maze).entered
    /\ solved' = solved \cup {"dfs"}
    /\ UNCHANGED <<width, height, difficulty, maze, stack, visited, extra_left,
                   pc, bfs_path, given, rotations, args_small>>

Next ==
    \/ Start
    \/ Carve
    \/ Backtrack
    \/ AddExtraPaths
    \/ ExtraPath
    \/ SetStartEnd
    \/ Rotate
    \/ SolveBfs
    \/ SolveDfs

Spec == Init /\ [][Next]_vars

----------------------------------------------------------------------------
(* MazeSolver on hand-made grids: any grid of GridWidth x GridHeight cells *)
(* with at most one Entry and at most one Exit                             *)

CellValues == {Passage, Wall, Entry, Exit}

CountOf(m, v) == Cardinality({c \in CellsOf(m) : m[c[2]][c[1]] = v})

SolverInit ==
    /\ maze \in [0..(GridHeight - 1) -> [0..(GridWidth - 1) -> CellValues]]
    /\ CountOf(maze, Entry) <= 1
    /\ CountOf(maze, Exit) <= 1
    /\ given = maze
    /\ width = GridWidth
    /\ height = GridHeight
    /\ difficulty = "hard"
    /\ stack = <<>>
    /\ visited = {}
    /\ extra_left = 0
    /\ pc = "handed"
    /\ args_small = FALSE
    /\ solved = {}
    /\ bfs_path = <<>>
    /\ dfs_path = <<>>
    /\ rotations = 0
    /\ dfs_entered = <<>>

SolverNext ==
    \/ SolveBfs
    \/ SolveDfs

SolverSpec == SolverInit /\ [][SolverNext]_vars

----------------------------------------------------------------------------
(* _rotate_maze alone: a generator whose grid holds any values in the two  *)
(* corner cells (1,1) and (height-2, width-2) and Passage in at most       *)
(* MaxMarked other cells, rotated up to MaxRotations times                 *)

\* the subsets of Cells of at most k members
RECURSIVE SubsetsUpTo(_, _)
SubsetsUpTo(Cells, k) ==
    IF k = 0 THEN {{}}
    ELSE LET P == SubsetsUpTo(Cells, k - 1)
         IN  P \cup {S \cup {c} : S \in P, c \in Cells}

\* the grids of w x h cells described above
MarkedGrids(w, h) ==
    LET Cells == {<<x, y>> : x \in 0..(w - 1), y \in 0..(h - 1)}
    IN  {[[[y \in 0..(h - 1) |-> [x \in 0..(w - 1) |->
                IF <<x, y>> \in S THEN Passage ELSE Wall]]
            EXCEPT ![1][1] = a] EXCEPT ![h - 2][w - 2] = b] :
          S \in SubsetsUpTo(Cells, MaxMarked), a \in CellValues, b \in CellValues}

RotateInit ==
    /\ \E w \in 3..MaxRotDim, h \in 3..MaxRotDim :
        /\ width = OddCorrect(w)
        /\ height = OddCorrect(h)
        /\ maze \in MarkedGrids(OddCorrect(w), OddCorrect(h))
    /\ given = maze
    /\ difficulty = "hard"
    /\ stack = <<>>
    /\ visited = {}
    /\ extra_left = 0
    /\ pc = "rotating"
    /\ args_small = FALSE
    /\ solved = {}
    /\ bfs_path = <<>>
    /\ dfs_path = <<>>
    /\ rotations = 0
    /\ dfs_entered = <<>>

\* _rotate_maze applied once more
RotateAgain ==
    /\ pc = "rotating"
    /\ rotations < MaxRotations
    /\ maze' = RotateMaze(maze, width, height)
    /\ rotations' = rotations + 1
    /\ UNCHANGED <<width, height, difficulty, stack, visited, extra_left, pc,
                   solved, bfs_path, dfs_path, given, args_small, dfs_entered>>

RotateNext == RotateAgain

RotateSpec == RotateInit /\ [][RotateNext]_vars

----------------------------------------------------------------------------
(* Reference definitions the properties are stated with *)

\* the cells of the generator's grid that are not Wall
OpenCells(m) == {c \in CellsOf(m) : m[c[2]][c[1]] # Wall}

\* c and d are one orthogonal unit step apart
UnitStep(c, d) ==
    \/ (c[1] = d[1] /\ (c[2] - d[2] = 1 \/ d[2] - c[2] = 1))
    \/ (c[2] = d[2] /\ (c[1] - d[1] = 1 \/ d[1] - c[1] = 1))

\* the cells reachable from the set S by unit steps through cells not Wall
RECURSIVE Flood(_, _)
Flood(m, S) ==
    LET N == S \cup {c \in OpenCells(m) : \E d \in S : UnitStep(c, d)}
    IN  IF N = S THEN S ELSE Flood(m, N)

\* the number of unit steps of a shortest walk from the cells of frontier
\* (k steps from the source) to target through cells not Wall; -1 if none
RECURSIVE RefDist(_, _, _, _, _)
RefDist(m, frontier, seen, target, k) ==
    IF target \in frontier THEN k
    ELSE IF frontier = {} THEN -1
    ELSE LET F == {c \in OpenCells(m) \ seen : \E d \in frontier : UnitStep(c, d)}
         IN  RefDist(m, F, seen \cup F, target, k + 1)

CellsHolding(m, v) == {c \in CellsOf(m) : m[c[2]][c[1]] = v}

BorderCells(w, h) ==
    {<<x, y>> \in (0..(w - 1)) \X (0..(h - 1)) :
        x = 0 \/ y = 0 \/ x = w - 1 \/ y = h - 1}

\* a cell with both coordinates even: carving never opens one
EvenCellOpen(m, w, h) ==
    \E x \in 1..(w - 2), y \in 1..(h - 2) :
        x % 2 = 0 /\ y % 2 = 0 /\ m[y][x] = Passage

----------------------------------------------------------------------------
(* Properties *)

\* C1: on every grid generate_maze returned, solve_bfs returns a non-empty
\* path whose first cell is the Entry cell and whose last cell is the Exit cell.
C1_BfsSolvesGenerated ==
    (pc = "done" /\ "bfs" \in solved) =>
        /\ bfs_path # <<>>
        /\ maze[bfs_path[1][2]][bfs_path[1][1]] = Entry
        /\ maze[bfs_path[Len(bfs_path)][2]][bfs_path[Len(bfs_path)][1]] = Exit

\* C1, on the grids that hold an Entry cell (every grid but 3 x 3)
C1_BfsSolvesGeneratedWithEntry ==
    (pc = "done" /\ "bfs" \in solved /\ CellsHolding(maze, Entry) # {}) =>
        /\ bfs_path # <<>>
        /\ maze[bfs_path[1][2]][bfs_path[1][1]] = Entry
        /\ maze[bfs_path[Len(bfs_path)][2]][bfs_path[Len(bfs_path)][1]] = Exit

\* C1, what solve_bfs returns on the 3 x 3 grid: the one-cell path of the
\* fallback start (1,1), which holds Exit
C1_BfsOnSmallest ==
    (pc = "done" /\ "bfs" \in solved /\ width = 3 /\ height = 3) =>
        bfs_path = <<<<1, 1>>>> /\ maze[1][1] = Exit

\* C2: every grid generate_maze returned holds exactly one Entry cell and
\* exactly one Exit cell.
C2_OneEntryOneExit ==
    pc = "done" =>
        /\ Cardinality(CellsHolding(maze, Entry)) = 1
        /\ Cardinality(CellsHolding(maze, Exit)) = 1

\* C2, on every grid but 3 x 3
C2_OneEntryOneExitLarger ==
    (pc = "done" /\ (width > 3 \/ height > 3)) =>
        /\ Cardinality(CellsHolding(maze, Entry)) = 1
        /\ Cardinality(CellsHolding(maze, Exit)) = 1

\* C3: with width and height both at least 5, every border cell is Wall in
\* every state of the generation and in the returned grid.
C3_BorderIsWall ==
    (width >= 5 /\ height >= 5) =>
        \A c \in BorderCells(width, height) : maze[c[2]][c[1]] = Wall

C3_Witness ==
    /\ pc = "done"
    /\ width >= 5 /\ height >= 5 /\ width # height
    /\ EvenCellOpen(maze, width, height)

\* C4: in every grid generate_maze returned there is an Entry cell, and every
\* cell that is not Wall is reachable from it by unit steps through cells
\* that are not Wall.
C4_AllOpenReachableFromEntry ==
    pc = "done" =>
        \E e \in CellsHolding(maze, Entry) : OpenCells(maze) \subseteq Flood(maze, {e})

\* C4, with the solver's start cell in place of the Entry cell
C4_AllOpenReachableFromStart ==
    pc = "done" => OpenCells(maze) \subseteq Flood(maze, {FindStart(maze)})

\* C5: the rotation step leaves, in every cell but the two corner cells
\* (1,1) and (height-2, width-2), what the point-reflected cell held, and
\* Entry is at (1,1) and Exit at (height-2, width-2) before and after it.
C5_RotationReflectsAndRenormalizes ==
    [][(pc = "placed" /\ pc' = "done") =>
        /\ \A r \in 0..(height - 1), c \in 0..(width - 1) :
             (<<r, c>> \notin {<<1, 1>>, <<height - 2, width - 2>>}) =>
                 maze'[r][c] = maze[height - 1 - r][width - 1 - c]
        /\ maze[1][1] = Entry /\ maze[height - 2][width - 2] = Exit
        /\ maze'[1][1] = Entry /\ maze'[height - 2][width - 2] = Exit]_vars

\* C5, on every grid but 3 x 3
C5_RotationLarger ==
    [][(pc = "placed" /\ pc' = "done" /\ (width > 3 \/ height > 3)) =>
        /\ \A r \in 0..(height - 1), c \in 0..(width - 1) :
             (<<r, c>> \notin {<<1, 1>>, <<height - 2, width - 2>>}) =>
                 maze'[r][c] = maze[height - 1 - r][width - 1 - c]
        /\ maze[1][1] = Entry /\ maze[height - 2][width - 2] = Exit
        /\ maze'[1][1] = Entry /\ maze'[height - 2][width - 2] = Exit]_vars

\* C6 as stated: on a 5 x 5 grid of difficulty hard, before the rotation step
\* Entry is at (1,1), Exit at (3,3) and each is reachable from the other, and
\* after the rotation step (3,3) holds Entry.
C6_ExitCellHoldsEntryAfterRotation ==
    [][(pc = "placed" /\ pc' = "done" /\ width = 5 /\ height = 5
            /\ difficulty = "hard") =>
        /\ maze[1][1] = Entry /\ maze[3][3] = Exit
        /\ <<3, 3>> \in Flood(maze, {<<1, 1>>})
        /\ <<1, 1>> \in Flood(maze, {<<3, 3>>})
        /\ maze'[3][3] = Entry]_vars

\* C6 as amended: on a 5 x 5 grid of difficulty hard, before the rotation
\* step Entry is at (1,1), Exit at (3,3) and each is reachable from the other,
\* and after the rotation step (3,3) holds Exit again and (1,1) holds Entry.
C6_ExitCellHoldsExitAfterRotation ==
    [][(pc = "placed" /\ pc' = "done" /\ width = 5 /\ height = 5
            /\ difficulty = "hard") =>
        /\ maze[1][1] = Entry /\ maze[3][3] = Exit
        /\ <<3, 3>> \in Flood(maze, {<<1, 1>>})
        /\ <<1, 1>> \in Flood(maze, {<<3, 3>>})
        /\ maze'[3][3] = Exit /\ maze'[1][1] = Entry]_vars

C6_Witness ==
    /\ pc = "done" /\ width = 5 /\ height = 5 /\ difficulty = "hard"
    /\ maze[3][3] = Exit /\ maze[1][1] = Entry

\* C7: _rotate_maze applied twice to a grid gives the grid back, cell for cell.
C7_RotateTwiceIsIdentity ==
    (pc = "rotating" /\ rotations = 2) => maze = given

C7_Witness ==
    /\ pc = "rotating" /\ rotations = 2
    /\ width # height
    /\ given[1][1] = Exit
    /\ given[height - 2][width - 2] = Passage

\* C8: an iteration of extra-path injection changes a cell only if the cell
\* has 2 <= x <= width-3 and 2 <= y <= height-3, was Wall, and had at least
\* two orthogonal neighbours that were Passage; the cell becomes Passage.
C8_ExtraPathsOnlyOpenInteriorWalls ==
    [][(pc = "extra_paths" /\ pc' # "placed") =>
        \A y \in 0..(height - 1), x \in 0..(width - 1) :
            (maze'[y][x] # maze[y][x]) =>
                /\ 2 <= x /\ x <= width - 3
                /\ 2 <= y /\ y <= height - 3
                /\ maze[y][x] = Wall
                /\ maze'[y][x] = Passage
                /\ Cardinality({d \in {<<x, y + 1>>, <<x + 1, y>>, <<x, y - 1>>, <<x - 1, y>>} :
                        maze[d[2]][d[1]] = Passage}) >= 2]_vars

C8_Witness ==
    /\ pc = "extra_paths"
    /\ extra_left < ExtraPathsCount(width, height, difficulty)
    /\ EvenCellOpen(maze, width, height)

\* C9: on a grid whose Exit cell is reachable from its Entry cell, the path
\* solve_bfs returns has as many cells as a shortest walk from Entry to Exit:
\* the reference distance plus one.
C9_BfsPathIsShortest ==
    ("bfs" \in solved /\ CellsHolding(given, Entry) # {} /\ CellsHolding(given, Exit) # {}) =>
        LET e == FindStart(given)
            x == FindEnd(given)
        IN  (x \in Flood(given, {e})) =>
                Len(bfs_path) = RefDist(given, {e}, {e}, x, 0) + 1

\* C9, on the grids generate_maze returned
C9_BfsPathIsShortestOnGenerated ==
    (pc = "done" /\ "bfs" \in solved /\ CellsHolding(maze, Entry) # {}) =>
        Len(bfs_path) = RefDist(maze, {FindStart(maze)}, {FindStart(maze)}, FindEnd(maze), 0) + 1

C9_Witness ==
    /\ "bfs" \in solved /\ "dfs" \in solved
    /\ CellsHolding(given, Entry) # {} /\ CellsHolding(given, Exit) # {}
    /\ Len(bfs_path) >= 3
    /\ Len(dfs_path) > Len(bfs_path)

\* C10: on the same grid, the path solve_bfs returns is not longer than the
\* path solve_dfs returns.
C10_BfsNotLongerThanDfs ==
    ({"bfs", "dfs"} \subseteq solved) => Len(bfs_path) <= Len(dfs_path)

\* C10, on the grids generate_maze returned
C10_BfsNotLongerThanDfsOnGenerated ==
    (pc = "done" /\ {"bfs", "dfs"} \subseteq solved) => Len(bfs_path) <= Len(dfs_path)

C10_Witness ==
    /\ {"bfs", "dfs"} \subseteq solved
    /\ Len(bfs_path) = 3
    /\ Len(dfs_path) = 7

\* a sequence of cells that starts at cell e and ends at cell x, holds only
\* cells of the grid that are not Wall, moves one orthogonal unit step at a
\* time and holds no cell twice
SimpleRoute(m, path, e, x) ==
    /\ path # <<>>
    /\ path[1] = e
    /\ path[Len(path)] = x
    /\ \A i \in 1..Len(path) : path[i] \in OpenCells(m)
    /\ \A i \in 1..(Len(path) - 1) : UnitStep(path[i], path[i + 1])
    /\ \A i, j \in 1..Len(path) : path[i] = path[j] => i = j

\* the grid handed to the solver holds an Entry and an Exit cell
HasMarkers(m) == CellsHolding(m, Entry) # {} /\ CellsHolding(m, Exit) # {}

\* the Exit cell of the grid can be reached from its Entry cell
ExitReachable(m) == HasMarkers(m) /\ FindEnd(m) \in Flood(m, {FindStart(m)})

\* C11: when the Exit cell is reachable from the Entry cell, the path each
\* solver returns starts at the Entry cell, ends at the Exit cell, holds only
\* in-range cells that are not Wall, moves by one unit on one axis between
\* consecutive cells, and holds no cell twice.
C11_PathsAreSimpleRoutes ==
    ExitReachable(given) =>
        /\ ("bfs" \in solved => SimpleRoute(given, bfs_path, FindStart(given), FindEnd(given)))
        /\ ("dfs" \in solved => SimpleRoute(given, dfs_path, FindStart(given), FindEnd(given)))

\* C11, on the grids generate_maze returned that hold both markers
C11_PathsAreSimpleRoutesOnGenerated ==
    (pc = "done" /\ HasMarkers(maze)) =>
        /\ ("bfs" \in solved => SimpleRoute(maze, bfs_path, FindStart(maze), FindEnd(maze)))
        /\ ("dfs" \in solved => SimpleRoute(maze, dfs_path, FindStart(maze), FindEnd(maze)))

\* both solvers returned on a grid where the depth-first search had to back
\* off a dead end: it entered more cells than its path holds
C11_Witness ==
    /\ {"bfs", "dfs"} \subseteq solved
    /\ ExitReachable(given)
    /\ Len(bfs_path) >= 3
    /\ Len(dfs_entered) > Len(dfs_path)

\* C12: on a grid that holds an Entry and an Exit cell with no route between
\* them, solve_bfs returns the empty sequence and solve_dfs returns no
\* non-empty path either.
C12_NoPathGivesEmptyResults ==
    (HasMarkers(given) /\ ~ExitReachable(given)) =>
        /\ ("bfs" \in solved => bfs_path = <<>>)
        /\ ("dfs" \in solved => dfs_path = <<>>)

\* C12, the part the code keeps: solve_bfs returns the empty sequence
C12_BfsEmptyWhenUnreachable ==
    (HasMarkers(given) /\ ~ExitReachable(given) /\ "bfs" \in solved) => bfs_path = <<>>

\* C12, what solve_dfs returns instead: the one-cell list holding the start
C12_DfsReturnsStartWhenUnreachable ==
    (HasMarkers(given) /\ ~ExitReachable(given) /\ "dfs" \in solved) =>
        dfs_path = <<FindStart(given)>>

\* every cell of the grid of the generator is Wall: nothing was carved
NothingCarved == \A y \in DOMAIN maze : \A x \in DOMAIN maze[y] : maze[y][x] = Wall

\* C13: a generator called with a width or height below 3 is turned down
\* before generation starts: generate_maze takes no step, so that it raises no
\* fault of its own, carves no cell and returns no grid.
C13_SmallDimensionsRejected ==
    args_small => (pc = "constructed" /\ NothingCarved)

\* C13, what the code does with a width or height of 2: it is corrected to 3
\* and generation runs; the state below, where a grid was returned, is reached
C13_GridReturnedForSmallArguments ==
    args_small /\ pc = "done" /\ ~NothingCarved

\* C13, what the code does with a width or height below 2: generate_maze
\* fills the grid and then faults on maze[1][1], with nothing carved
C13_BelowTwoFaultsInGeneration ==
    ((width < 2 \/ height < 2) /\ pc # "constructed") => (pc = "fault" /\ NothingCarved)

\* the cells of the generator's grid with both coordinates odd, inside the border
OddCells(w, h) ==
    {<<x, y>> \in (1..(w - 2)) \X (1..(h - 2)) : x % 2 = 1 /\ y % 2 = 1}

\* the cells of the generator's grid with both coordinates even
EvenCells(w, h) ==
    {<<x, y>> \in (0..(w - 1)) \X (0..(h - 1)) : x % 2 = 0 /\ y % 2 = 0}

\* the pairs of cells of S one unit step apart, each pair once
AdjacentPairs(S) ==
    {p \in S \X S : UnitStep(p[1], p[2]) /\ RowMajorBefore(p[1], p[2])}

\* the cells of S, linked by unit steps, form a tree: they are connected and
\* have one link fewer than cells, so that any two of them are joined by
\* exactly one simple path
IsTree(m, S) ==
    /\ S # {}
    /\ \A c \in S : Flood(m, {c}) = S
    /\ Cardinality(AdjacentPairs(S)) = Cardinality(S) - 1

\* the carving loop of generate_maze has just ended
CarvingEnded == pc = "carving" /\ stack = <<>>

\* C14: when the carving loop ends, before any extra path is added, every
\* interior cell with both coordinates odd is Passage, every cell with both
\* coordinates even is Wall, and the cells that are not Wall form a tree:
\* connected, with exactly one simple path between any two of them.
C14_CarvingLeavesSpanningTree ==
    CarvingEnded =>
        /\ \A c \in OddCells(width, height) : maze[c[2]][c[1]] = Passage
        /\ \A c \in EvenCells(width, height) : maze[c[2]][c[1]] = Wall
        /\ IsTree(maze, OpenCells(maze))

\* the carving loop ended on the 7x7 grid, with nine odd cells and the eight
\* opened cells between them
C14_Witness ==
    /\ CarvingEnded
    /\ width = 7 /\ height = 7
    /\ Cardinality(OpenCells(maze)) = 17

\* generate_maze, lines 37-58: while the stack is not empty the loop runs
\* its next iteration, which either carves or backtracks
FairSpec == Spec /\ WF_vars(Carve \/ Backtrack)

\* the cells held by a sequence
CellsIn(seq) == {seq[i] : i \in 1..Len(seq)}

\* one turn of the carving loop either pushes an odd interior cell that was
\* never pushed before and marks it visited, or pops the cell on top of the
\* stack, which is on the stack nowhere else; no cell is ever unmarked
CarvingTurn ==
    (pc = "carving" /\ pc' = "carving") =>
        \/ /\ Len(stack') = Len(stack) + 1
           /\ SubSeq(stack', 1, Len(stack)) = stack
           /\ stack'[Len(stack')] \in OddCells(width, height) \ visited
           /\ visited' = visited \cup {stack'[Len(stack')]}
        \/ /\ stack # <<>>
           /\ stack' = PopLast(stack)
           /\ stack[Len(stack)] \in visited \ CellsIn(stack')
           /\ visited' = visited

\* C15: the carving loop ends under every sequence of random choices; each
\* odd interior cell is pushed once and popped once, and the stack is empty
\* at the end only with every such cell visited.
C15_CarvingTerminates ==
    /\ [][CarvingTurn]_vars
    /\ []((pc = "carving") => (CellsIn(stack) \subseteq visited /\ <<1, 1>> \in visited))
    /\ [](CarvingEnded => visited = OddCells(width, height))
    /\ ((pc = "carving") ~> CarvingEnded)

\* the carving loop ended on the 7x5 grid, all six odd cells pushed and popped
C15_Witness ==
    /\ CarvingEnded
    /\ width = 7 /\ height = 5
    /\ Cardinality(visited) = 6

\* the grid holds a cycle of cells that are not Wall: a 2x2 block of them
HasOpenCycle(m) ==
    \E c \in OpenCells(m) :
        {<<c[1] + 1, c[2]>>, <<c[1], c[2] + 1>>, <<c[1] + 1, c[2] + 1>>} \subseteq OpenCells(m)

\* C16: solve_dfs ends on every grid, cycles of open cells included: the
\* recursive search is entered with no cell twice, backtracking or not, so
\* it is entered at most once per cell of the grid, the first time with the
\* start cell.
C16_DfsEntersEachCellOnce ==
    ("dfs" \in solved) =>
        /\ dfs_entered # <<>>
        /\ dfs_entered[1] = FindStart(given)
        /\ \A i, j \in 1..Len(dfs_entered) : dfs_entered[i] = dfs_entered[j] => i = j
        /\ Len(dfs_entered) <= Cardinality(CellsOf(given))

\* C16, on the grids generate_maze returned, extra paths and their cycles included
C16_DfsEntersEachCellOnceOnGenerated ==
    (pc = "done" /\ "dfs" \in solved) =>
        /\ \A i, j \in 1..Len(dfs_entered) : dfs_entered[i] = dfs_entered[j] => i = j
        /\ Len(dfs_entered) <= Cardinality(CellsOf(maze))

\* solve_dfs returned on a grid with a cycle of open cells after backing off
\* at least two cells
C16_Witness ==
    /\ "dfs" \in solved
    /\ HasOpenCycle(given)
    /\ Len(dfs_entered) >= Len(dfs_path) + 2

\* C17: with an odd-corrected width and height of at least 3 each, under
\* every difficulty, no step of generation raises a fault, and the grid that
\* generate_maze returns has height rows of width cells.
C17_GenerationNeverFaults ==
    (width >= 3 /\ height >= 3) =>
        /\ pc # "fault"
        /\ (pc = "done" => (SolverHeight(maze) = height /\ SolverWidth(maze) = width))

\* C17, where the code does fault: only in _add_extra_paths, on a grid 3 cells
\* wide or high for which the count of extra paths is not zero
C17_FaultOnlyWithThreeCells ==
    (width >= 3 /\ height >= 3 /\ pc = "fault") =>
        /\ (width = 3 \/ height = 3)
        /\ ExtraPathsCount(width, height, difficulty) > 0
        /\ extra_left = ExtraPathsCount(width, height, difficulty)

\* C17, on grids of at least 5 by 5 cells, where generation always completes
C17_NoFaultFromFiveCells ==
    (width >= 5 /\ height >= 5) =>
        /\ pc # "fault"
        /\ (pc = "done" => (SolverHeight(maze) = height /\ SolverWidth(maze) = width))

\* the cell midway between two cells two apart on one axis
Between(c, d) == <<(c[1] + d[1]) \div 2, (c[2] + d[2]) \div 2>>

\* c and d are two cells apart on one axis
TwoApart(c, d) ==
    \/ (c[1] = d[1] /\ (c[2] - d[2] = 2 \/ d[2] - c[2] = 2))
    \/ (c[2] = d[2] /\ (c[1] - d[1] = 2 \/ d[1] - c[1] = 2))

C19_SolversLeaveGridUnchanged ==
    /\ []((pc = "handed") => maze = given)
    /\ [][(pc = "handed") =>
            /\ maze' = maze
            /\ ("bfs" \in solved => bfs_path' = bfs_path)
            /\ ("dfs" \in solved => dfs_path' = dfs_path)]_vars

\* C19, for the solve calls made on the grid generate_maze returned
C19_SolversLeaveGeneratedGridUnchanged ==
    [][(pc = "done") =>
            /\ maze' = maze
            /\ ("bfs" \in solved => bfs_path' = bfs_path)
            /\ ("dfs" \in solved => dfs_path' = dfs_path)]_vars

\* both solvers returned a path of several cells on a grid that still is
\* the grid handed over
C19_Witness ==
    /\ pc = "handed"
    /\ {"bfs", "dfs"} \subseteq solved
    /\ Len(bfs_path) >= 2 /\ Len(dfs_path) >= 2
    /\ maze = given

====
